---- MODULE Spec2Model ----
(***************************************************************************)
(* Model of mts/dataset/load_data.py: the four provider loaders            *)
(* (AlfaLoader, BpsLoader, InstallmentLoader, LizingLoader), each reading  *)
(* a file into a DataFrame, renaming and projecting its columns, and       *)
(* turning every exception into a printed diagnostic and a None result.    *)
(*                                                                         *)
(* DataFrames live in a heap of objects (an id is an index into the heap), *)
(* so that copies and in-place operations are distinguishable.  A table is *)
(* [cols, rows]: cols is the sequence of column labels and rows the        *)
(* sequence of rows, each row a sequence of cells.  Printed lines are      *)
(* sequences of words.  The Cyrillic literals of the source are written in *)
(* Latin transliteration (TLA+ strings are ASCII).                         *)
(***************************************************************************)
EXTENDS Integers, Sequences, FiniteSets, TLC

VARIABLES loaders, fs, heap, last, first

vars == <<loaders, fs, heap, last, first>>

----------------------------------------------------------------------------
(* Bounds of the explored inputs *)

MaxRows == 2

MaxExtra == 1

MaxSheets == 2

----------------------------------------------------------------------------
(* Literals of the source *)

Variants == {"alfa", "bps", "installment", "lizing"}

None == 0

SheetAlfa == "Sheet1"

SheetInstallment == "List1"

SheetLizing == "Sheet1"

AlfaColumns == [Phone |-> "phone_number", Date |-> "date"] @@
               ("Identification number" :> "identify")

AlfaSelected == <<"date", "phone_number", "identify">>

\* The three columns the docstring lists, 'PD' among them.
BpsUsecols_with_PD == <<"TEL", "APLCTN_DT", "PD">>

BpsUsecols == <<"TEL", "APLCTN_DT">>

BpsDtype == [TEL |-> "int64", APLCTN_DT |-> "string"]

BpsParseDates == {"APLCTN_DT"}

BpsColumns == [TEL |-> "phone_number", APLCTN_DT |-> "date"]

BpsSelected == <<"date", "phone_number">>

InstallmentKeep == <<"Deystvuyushchiy abonentskiy nomer", "Data prodazhi">>

InstallmentColumns == ("Deystvuyushchiy abonentskiy nomer" :> "phone_number") @@
                      ("Data prodazhi" :> "date")

InstallmentSelected == <<"date", "phone_number">>

LizingColumns == ("Mobilnyy telefon" :> "phone_number") @@
                 ("Data zaklyucheniya" :> "date")

LizingSelected == <<"date", "phone_number">>

----------------------------------------------------------------------------
(* Exceptions *)

NoExc == [type |-> "none", msg |-> ""]

Exc(t, m) == [type |-> t, msg |-> m]

\* Classes the handlers' "except Exception" clause catches: every error the
\* lookup, the readers and the column selection raise derives from Exception.
except_Exception_narrow(e) == e.type \in {"FileNotFoundError"}

except_Exception(e) == e.type \in {"KeyError", "FileNotFoundError", "ValueError",
                                   "UnicodeDecodeError"}

----------------------------------------------------------------------------
(* Sequences *)

Range(s) == {s[i] : i \in DOMAIN s}

RECURSIVE Flatten(_)
Flatten(ss) == IF ss = <<>> THEN <<>> ELSE Head(ss) \o Flatten(Tail(ss))

\* The positions of s that hold x, ascending.
Positions(s, x) == SelectSeq([i \in 1..Len(s) |-> i], LAMBDA i : s[i] = x)

----------------------------------------------------------------------------
(* Tables and the DataFrame operations the loaders use.  Every operation   *)
(* takes the heap and returns [heap, id, exc]: the heap afterwards, the id *)
(* of the object it yields, and the exception it raised (NoExc if none).   *)

Table(cols, rows) == [cols |-> cols, rows |-> rows]

Alloc(h, t) == [heap |-> Append(h, t), id |-> Len(h) + 1, exc |-> NoExc]

Raise(h, e) == [heap |-> h, id |-> None, exc |-> e]

\* Columns relabelled through the mapper; labels outside it are kept.
RenameT(t, columns) ==
    Table([j \in 1..Len(t.cols) |->
              IF t.cols[j] \in DOMAIN columns THEN columns[t.cols[j]] ELSE t.cols[j]],
          t.rows)

\* The table made of the columns at the given positions, in that order.
TakeT(t, pos) ==
    Table([k \in 1..Len(pos) |-> t.cols[pos[k]]],
          [i \in 1..Len(t.rows) |-> [k \in 1..Len(pos) |-> t.rows[i][pos[k]]]])

\* Label-based indexer: for each requested label, in request order, every
\* position carrying it (a label borne by several columns selects them all).
Indexer(cols, labels) == Flatten([k \in 1..Len(labels) |-> Positions(cols, labels[k])])

SelectT(t, labels) == TakeT(t, Indexer(t.cols, labels))

\* df.rename(columns=...): a new object.
DataFrame_rename(h, id, columns) == Alloc(h, RenameT(h[id], columns))

\* df.rename(columns=..., inplace=True): the object itself is changed.
DataFrame_rename_inplace(h, id, columns) ==
    [heap |-> [h EXCEPT ![id] = RenameT(h[id], columns)], id |-> id, exc |-> NoExc]

\* A selection that drops repeated rows.
DataFrame_loc_dedup(h, id, labels) ==
    LET t == SelectT(h[id], labels)
        keep == SelectSeq([i \in 1..Len(t.rows) |-> i],
                          LAMBDA i : \A k \in 1..(i - 1) : t.rows[k] # t.rows[i])
    IN  IF \E k \in 1..Len(labels) : labels[k] \notin Range(h[id].cols)
        THEN Raise(h, Exc("KeyError", "not in index"))
        ELSE Alloc(h, Table(t.cols, [i \in 1..Len(keep) |-> t.rows[keep[i]]]))

\* df.loc[:, labels] and df[labels]: KeyError when a label names no column,
\* else a new object holding the selected columns.
DataFrame_loc(h, id, labels) ==
    IF \E k \in 1..Len(labels) : labels[k] \notin Range(h[id].cols)
    THEN Raise(h, Exc("KeyError", "not in index"))
    ELSE Alloc(h, SelectT(h[id], labels))

\* A copy that hands back the object itself.
DataFrame_copy_alias(h, id) == [heap |-> h, id |-> id, exc |-> NoExc]

\* df.copy(): a new object with the same content.
DataFrame_copy(h, id) == Alloc(h, h[id])

----------------------------------------------------------------------------
(* Files.  A workbook is [kind |-> "xlsx", sheets], sheets a sequence of   *)
(* [name, cols, rows]; a delimited text file is [kind |-> "csv", cols,     *)
(* rows].  A cell is [s, r, c, ty]: the sheet and column it was written in *)
(* (s = 0 in a text file), the tag r of its row's content, and its type.   *)
(* Rows with equal tags have equal content; the tag "x" marks a row whose  *)
(* fields are not integer literals.  Header labels are distinct within a   *)
(* sheet: the readers rename repeated headers to labels of their own.      *)

Cell(s, r, c, ty) == [s |-> s, r |-> r, c |-> c, ty |-> ty]

\* pd.read_excel(path, sheet_name=0, header=0): the first sheet.
read_excel_first(h, files, path, sheet_name) ==
    IF path \notin DOMAIN files
    THEN Raise(h, Exc("FileNotFoundError", "No such file or directory"))
    ELSE IF files[path].kind # "xlsx"
    THEN Raise(h, Exc("ValueError", "Excel file format cannot be determined"))
    ELSE Alloc(h, Table(files[path].sheets[1].cols, files[path].sheets[1].rows))

\* pd.read_excel(path, sheet_name=<name>, header=0): the sheet of that name,
\* its first row as the column labels.
read_excel(h, files, path, sheet_name) ==
    IF path \notin DOMAIN files
    THEN Raise(h, Exc("FileNotFoundError", "No such file or directory"))
    ELSE IF files[path].kind # "xlsx"
    THEN Raise(h, Exc("ValueError", "Excel file format cannot be determined"))
    ELSE LET ss == files[path].sheets
             at == Positions([i \in 1..Len(ss) |-> ss[i].name], sheet_name)
         IN  IF at = <<>>
             THEN Raise(h, Exc("ValueError", "Worksheet not found"))
             ELSE Alloc(h, Table(ss[at[1]].cols, ss[at[1]].rows))

\* The value a field takes under a dtype / parse_dates conversion.
Convert(cell, ty) == [cell EXCEPT !.ty = ty]

IsIntLiteral(cell) == cell.r # "x"

\* pd.read_csv(path, sep=';', usecols=..., dtype=..., parse_dates=...):
\* only the usecols columns are kept (in file order) and converted.
read_csv(h, files, path, usecols, dtype, parse_dates) ==
    IF path \notin DOMAIN files
    THEN Raise(h, Exc("FileNotFoundError", "No such file or directory"))
    ELSE IF files[path].kind # "csv"
    THEN Raise(h, Exc("UnicodeDecodeError", "invalid start byte"))
    ELSE LET f == files[path]
             keep == SelectSeq([j \in 1..Len(f.cols) |-> j],
                               LAMBDA j : f.cols[j] \in Range(usecols))
             t == TakeT(f, keep)
             TypeOf(l) == IF l \in parse_dates THEN "datetime"
                          ELSE IF l \in DOMAIN dtype THEN dtype[l] ELSE "object"
         IN  IF \E k \in 1..Len(usecols) : usecols[k] \notin Range(f.cols)
             THEN Raise(h, Exc("ValueError", "Usecols do not match columns"))
             ELSE IF \E i \in 1..Len(t.rows), j \in 1..Len(t.cols) :
                        /\ TypeOf(t.cols[j]) = "int64"
                        /\ ~IsIntLiteral(t.rows[i][j])
             THEN Raise(h, Exc("ValueError", "invalid literal for int()"))
             ELSE Alloc(h, Table(t.cols,
                      [i \in 1..Len(t.rows) |-> [j \in 1..Len(t.cols) |->
                          Convert(t.rows[i][j], TypeOf(t.cols[j]))]]))

----------------------------------------------------------------------------
(* Printed diagnostics, as sequences of words *)

ErrorLine(prefix, e) == Append(prefix, e.msg)

AlfaLoading == <<"Loading", "Alfa", "data...">>
AlfaLoaded == <<"Alfa", "data", "loaded", "successfully.">>
AlfaCleaning == <<"Cleaning", "Alfa", "data...">>
AlfaCleaned == <<"Alfa", "data", "cleaned", "successfully.">>
AlfaError == <<"Error", "while", "loading", "or", "cleaning", "Alfa", "data:">>

BpsLoading == <<"Loading", "BPS", "data...">>
BpsCleaning == <<"Cleaning", "BPS", "data...">>

InstallmentLoading == <<"Loading", "Installment", "data...">>
InstallmentCleaning == <<"Cleaning", "Lizing", "data...">>

LizingLoading == <<"Loading", "Lizing", "data...">>
LizingCleaning == <<"Cleaning", "Lizing", "data...">>

DataLoaded == <<"Data", "loaded", "successfully.">>
DataCleaned == <<"Data", "cleaned", "successfully.">>
DataError == <<"An", "error", "occurred", "during", "data", "processing:">>

----------------------------------------------------------------------------
(* The loaders *)

DataLoader_init(paths) == [paths |-> paths]

\* self.paths.pop(key): the lookup that also removes the entry.
dict_pop(d, key) ==
    IF key \in DOMAIN d
    THEN [exc |-> NoExc, val |-> d[key], dict |-> [k \in DOMAIN d \ {key} |-> d[k]]]
    ELSE [exc |-> Exc("KeyError", key), val |-> "", dict |-> d]

\* self.paths[key]: KeyError when the key is missing; the dict is left as is.
dict_getitem(d, key) ==
    IF key \in DOMAIN d
    THEN [exc |-> NoExc, val |-> d[key], dict |-> d]
    ELSE [exc |-> Exc("KeyError", key), val |-> "", dict |-> d]

AlfaLoader_clean_data(h, df) ==
    LET r == DataFrame_rename(h, df, AlfaColumns)
    IN  DataFrame_loc(r.heap, r.id, AlfaSelected)

BpsLoader_read_data(h, files, csv_file_path) ==
    read_csv(h, files, csv_file_path, BpsUsecols, BpsDtype, BpsParseDates)

BpsLoader_clean_data(h, input_df) ==
    LET c == DataFrame_copy(h, input_df)
        r == DataFrame_rename_inplace(c.heap, c.id, BpsColumns)
    IN  DataFrame_loc(r.heap, r.id, BpsSelected)

InstallmentLoader_clean_data(h, input_df) ==
    LET r == DataFrame_rename(h, input_df, InstallmentColumns)
    IN  DataFrame_loc(r.heap, r.id, InstallmentSelected)

LizingLoader_clean_data(h, df) ==
    LET r == DataFrame_rename(h, df, LizingColumns)
    IN  DataFrame_loc(r.heap, r.id, LizingSelected)

\* The try block of an entry point as far as it got: the lines printed, the
\* steps entered, the raw and the cleaned object, and the exception pending.
Body(self, lk, rd, cl, fin, loading, loaded, cleaning, cleaned) ==
    [exc   |-> fin.exc,
     ret   |-> fin.id,
     heap  |-> fin.heap,
     out   |-> <<loading>>
               \o (IF rd.exc = NoExc THEN <<loaded, cleaning>> ELSE <<>>)
               \o (IF rd.exc = NoExc /\ cl.exc = NoExc THEN <<cleaned>> ELSE <<>>),
     steps |-> (IF lk.exc = NoExc THEN <<"read">> ELSE <<>>)
               \o (IF rd.exc = NoExc THEN <<"clean">> ELSE <<>>),
     raw   |-> rd.id,
     mid   |-> cl.id,
     self  |-> [self EXCEPT !.paths = lk.dict]]

\* A handler that hands back what the call had produced so far.
Handler_partial(body, prefix) ==
    IF body.exc = NoExc THEN body
    ELSE [body EXCEPT !.exc = NoExc, !.ret = body.raw,
                      !.out = Append(@, ErrorLine(prefix, body.exc))]

\* "except Exception as e: print(...); return None"; an exception the
\* clause does not catch leaves the call with no value.
Handler(body, prefix) ==
    IF body.exc = NoExc THEN body
    ELSE IF except_Exception(body.exc)
    THEN [body EXCEPT !.exc = NoExc, !.ret = None,
                      !.out = Append(@, ErrorLine(prefix, body.exc))]
    ELSE [body EXCEPT !.ret = None]

AlfaLoader_load_alfa_data(self, files) ==
    LET lk == dict_getitem(self.paths, "alfa")
        rd == IF lk.exc = NoExc THEN read_excel(<<>>, files, lk.val, SheetAlfa)
              ELSE Raise(<<>>, lk.exc)
        cl == IF rd.exc = NoExc THEN AlfaLoader_clean_data(rd.heap, rd.id)
              ELSE Raise(rd.heap, rd.exc)
    IN  Handler(Body(self, lk, rd, cl, cl,
                     AlfaLoading, AlfaLoaded, AlfaCleaning, AlfaCleaned), AlfaError)

BpsLoader_load_bps_data(self, files) ==
    LET lk == dict_getitem(self.paths, "bps")
        rd == IF lk.exc = NoExc THEN BpsLoader_read_data(<<>>, files, lk.val)
              ELSE Raise(<<>>, lk.exc)
        cl == IF rd.exc = NoExc THEN BpsLoader_clean_data(rd.heap, rd.id)
              ELSE Raise(rd.heap, rd.exc)
        cp == IF cl.exc = NoExc THEN DataFrame_copy(cl.heap, cl.id)
              ELSE Raise(cl.heap, cl.exc)
    IN  Handler(Body(self, lk, rd, cl, cp,
                     BpsLoading, DataLoaded, BpsCleaning, DataCleaned), DataError)

InstallmentLoader_load_installment_data(self, files) ==
    LET lk == dict_getitem(self.paths, "installment")
        xl == IF lk.exc = NoExc THEN read_excel(<<>>, files, lk.val, SheetInstallment)
              ELSE Raise(<<>>, lk.exc)
        rd == IF xl.exc = NoExc THEN DataFrame_loc(xl.heap, xl.id, InstallmentKeep)
              ELSE Raise(xl.heap, xl.exc)
        cl == IF rd.exc = NoExc THEN InstallmentLoader_clean_data(rd.heap, rd.id)
              ELSE Raise(rd.heap, rd.exc)
    IN  Handler(Body(self, lk, rd, cl, cl,
                     InstallmentLoading, DataLoaded, InstallmentCleaning, DataCleaned),
                DataError)

LizingLoader_load_lizing_data(self, files) ==
    LET lk == dict_getitem(self.paths, "lizing")
        rd == IF lk.exc = NoExc THEN read_excel(<<>>, files, lk.val, SheetLizing)
              ELSE Raise(<<>>, lk.exc)
        cl == IF rd.exc = NoExc THEN LizingLoader_clean_data(rd.heap, rd.id)
              ELSE Raise(rd.heap, rd.exc)
    IN  Handler(Body(self, lk, rd, cl, cl,
                     LizingLoading, DataLoaded, LizingCleaning, DataCleaned), DataError)

----------------------------------------------------------------------------
(* The explored inputs *)

RequiredSeq(v) ==
    CASE v = "alfa"        -> <<"Phone", "Date", "Identification number">>
      [] v = "bps"         -> <<"TEL", "APLCTN_DT">>
      [] v = "installment" -> <<"Deystvuyushchiy abonentskiy nomer", "Data prodazhi">>
      [] v = "lizing"      -> <<"Mobilnyy telefon", "Data zaklyucheniya">>

Required(v) == Range(RequiredSeq(v))

Canonical(v) == IF v = "alfa" THEN AlfaSelected ELSE <<"date", "phone_number">>

ExtraVocab == <<"date", "phone_number", "identify", "PD">>

ExtraSeqs == {SelectSeq(ExtraVocab, LAMBDA l : l \in S) :
                 S \in {T \in SUBSET Range(ExtraVocab) : Cardinality(T) <= MaxExtra}}

\* Header rows aimed at variant v: its required labels, at most one of them
\* left out, with up to MaxExtra further columns before or after them.
Headers(v) ==
    LET Bases == {SelectSeq(RequiredSeq(v), LAMBDA l : l # d) :
                     d \in Required(v) \cup {"-"}}
    IN  UNION {{b \o e, e \o b} : b \in Bases, e \in ExtraSeqs}

TagSeqs(T) == UNION {[1..n -> T] : n \in 0..MaxRows}

SheetNames == {"Sheet1", "List1", "Data"}

Layouts == {ns \in UNION {[1..n -> SheetNames] : n \in 1..MaxSheets} :
               \A i, j \in DOMAIN ns : i # j => ns[i] # ns[j]}

Grid(s, cols, tags, ty) ==
    [i \in 1..Len(tags) |-> [j \in 1..Len(cols) |-> Cell(s, tags[i], j, ty)]]

Workbook(cols, tags, names) ==
    [kind |-> "xlsx",
     sheets |-> [s \in 1..Len(names) |->
                    [name |-> names[s], cols |-> cols, rows |-> Grid(s, cols, tags, "object")]]]

Csv(cols, tags) == [kind |-> "csv", cols |-> cols, rows |-> Grid(0, cols, tags, "text")]

\* Workbooks of one sheet with every row content, workbooks of several
\* sheets with two distinct rows, and text files.
Files ==
    LET WorkbookHeaders == UNION {Headers(v) : v \in Variants \ {"bps"}}
    IN  {Workbook(c, t, n) : c \in WorkbookHeaders, t \in TagSeqs({"a", "b"}),
                             n \in {<<"Sheet1">>, <<"List1">>}}
        \cup {Workbook(c, <<"a", "b">>, n) : c \in WorkbookHeaders, n \in Layouts}
        \cup {Csv(c, t) : c \in Headers("bps"), t \in TagSeqs({"a", "b", "x"})}

SampleFiles == {Workbook(RequiredSeq("alfa"), <<"a">>, <<"Sheet1">>),
                Csv(RequiredSeq("bps"), <<"a">>)}

Configs == UNION {[D -> {"data", "nofile"}] : D \in SUBSET Variants}

----------------------------------------------------------------------------
(* State.  loaders[v] is the loader object of variant v; fs the files on   *)
(* disk; heap the DataFrame objects of the latest call; last what that     *)
(* call did and returned; first[v] the outcome of v's first call.          *)

NoTable == Table(<<>>, <<>>)

Unset == [called |-> FALSE, ok |-> FALSE, data |-> NoTable]

Outcome(res) ==
    [called |-> TRUE, ok |-> res.ret # None,
     data |-> IF res.ret # None THEN res.heap[res.ret] ELSE NoTable]

NoCall == [v |-> "none", ret |-> None, exc |-> NoExc, out |-> <<>>, steps |-> <<>>,
           raw |-> None, mid |-> None, heap |-> <<>>, again |-> FALSE]

\* What a call did: heap is the heap as the call left it, again tells
\* whether the variant had been called before.
Summary(v, res, again) ==
    [v |-> v, ret |-> res.ret, exc |-> res.exc, out |-> res.out, steps |-> res.steps,
     raw |-> res.raw, mid |-> res.mid, heap |-> res.heap, again |-> again]

Init ==
    /\ \E kw \in Configs, f \in Files \cup SampleFiles :
          /\ kw = [k \in Variants |-> "data"] \/ f \in SampleFiles
          /\ loaders = [v \in Variants |-> DataLoader_init(kw)]
          /\ fs = [p \in {"data"} |-> f]
    /\ heap = <<>>
    /\ last = NoCall
    /\ first = [v \in Variants |-> Unset]

Return(v, res) ==
    /\ loaders' = [loaders EXCEPT ![v] = res.self]
    /\ heap' = res.heap
    /\ last' = Summary(v, res, first[v].called)
    /\ first' = IF first[v].called THEN first ELSE [first EXCEPT ![v] = Outcome(res)]
    /\ UNCHANGED fs

LoadAlfa == Return("alfa", AlfaLoader_load_alfa_data(loaders["alfa"], fs))

LoadBps == Return("bps", BpsLoader_load_bps_data(loaders["bps"], fs))

LoadInstallment ==
    Return("installment", InstallmentLoader_load_installment_data(loaders["installment"], fs))

LoadLizing == Return("lizing", LizingLoader_load_lizing_data(loaders["lizing"], fs))

\* The caller changes the record set it was handed, in place.
CallerMutate ==
    /\ last.ret # None
    /\ heap[last.ret] = last.heap[last.ret]
    /\ heap' = [heap EXCEPT ![last.ret] = NoTable]
    /\ UNCHANGED <<loaders, fs, last, first>>

Next == LoadAlfa \/ LoadBps \/ LoadInstallment \/ LoadLizing \/ CallerMutate

Spec == Init /\ [][Next]_vars

----------------------------------------------------------------------------
(* Vocabulary of the properties *)

Called == last.v # "none"

Succeeded == Called /\ last.ret # None

\* The record set the latest call returned and the one its read step
\* produced, as they were when the call returned.
Result == last.heap[last.ret]

RawSet == last.heap[last.raw]

TheFile == fs["data"]

\* The header row of the file (every sheet of a workbook bears the same).
FileCols == IF TheFile.kind = "csv" THEN TheFile.cols ELSE TheFile.sheets[1].cols

PathOf(v) == IF v \in DOMAIN loaders[v].paths THEN loaders[v].paths[v] ELSE "<no key>"

WantedKind(v) == IF v = "bps" THEN "csv" ELSE "xlsx"

WantedSheet(v) == IF v = "installment" THEN "List1" ELSE "Sheet1"

SheetsNamed(name) ==
    IF TheFile.kind = "xlsx"
    THEN {i \in 1..Len(TheFile.sheets) : TheFile.sheets[i].name = name}
    ELSE {}

RenameMap(v) ==
    CASE v = "alfa"        -> AlfaColumns
      [] v = "bps"         -> BpsColumns
      [] v = "installment" -> InstallmentColumns
      [] v = "lizing"      -> LizingColumns

ProviderName(v) ==
    CASE v = "alfa"        -> "Alfa"
      [] v = "bps"         -> "BPS"
      [] v = "installment" -> "Installment"
      [] v = "lizing"      -> "Lizing"

ProviderNames == {ProviderName(v) : v \in Variants}

\* The ways the input of variant v makes its lookup, read or clean fail.
KeyLacking(v) == v \notin DOMAIN loaders[v].paths

FileAbsent(v) == ~KeyLacking(v) /\ PathOf(v) \notin DOMAIN fs

Malformed(v) ==
    /\ PathOf(v) \in DOMAIN fs
    /\ \/ TheFile.kind # WantedKind(v)
       \/ TheFile.kind = "xlsx" /\ SheetsNamed(WantedSheet(v)) = {}

CoercionFails(v) ==
    /\ v = "bps" /\ PathOf(v) \in DOMAIN fs /\ TheFile.kind = "csv"
    /\ \E i \in 1..Len(TheFile.rows), j \in 1..Len(TheFile.cols) :
          TheFile.cols[j] = "TEL" /\ TheFile.rows[i][j].r = "x"

\* A canonical column that neither the file nor the renaming provides.
ColumnLacking(v) ==
    /\ PathOf(v) \in DOMAIN fs
    /\ \E l \in Required(v) :
          /\ l \notin Range(FileCols)
          /\ v \in {"bps", "installment"} \/ RenameMap(v)[l] \notin Range(FileCols)

InputFails(v) ==
    KeyLacking(v) \/ FileAbsent(v) \/ Malformed(v) \/ CoercionFails(v) \/ ColumnLacking(v)

----------------------------------------------------------------------------
\* C1: no entry point ever raises to its caller, and whenever the path
\* lookup, the read step or the clean step fails (key lacking, file absent,
\* malformed content, coercion failure, missing column) the call returns None.
C1_NeverRaises ==
    Called => /\ last.exc = NoExc
              /\ InputFails(last.v) => last.ret = None

\* A call whose clean step failed on a missing column and returned None.
C1_Witness ==
    /\ Called /\ ColumnLacking(last.v) /\ ~Malformed(last.v)
    /\ last.steps = <<"read", "clean">> /\ last.ret = None

\* C2 (as claimed): every returned record set has exactly the canonical
\* columns of its variant, in order, each once, whatever extra columns the
\* source carries.
C2_ExactlyCanonicalColumns == Succeeded => Result.cols = Canonical(last.v)

\* C3: a returned record set has as many rows as the raw record set, in the
\* same order, and row i holds the values of raw row i under the renamed
\* columns.
C3_RowsPreserved ==
    Succeeded =>
        /\ Len(Result.rows) = Len(RawSet.rows)
        /\ \A i \in 1..Len(Result.rows) :
              /\ Len(Result.rows[i]) = Len(Result.cols)
              /\ \A j \in 1..Len(Result.cols) :
                    \E k \in 1..Len(RawSet.cols) :
                       /\ RenameT(RawSet, RenameMap(last.v)).cols[k] = Result.cols[j]
                       /\ Result.rows[i][j] = RawSet.rows[i][k]
        /\ \A k \in 1..Len(RawSet.cols) :
              RenameT(RawSet, RenameMap(last.v)).cols[k] \in Range(Canonical(last.v))
              => \E j \in 1..Len(Result.cols) :
                    \A i \in 1..Len(Result.rows) : Result.rows[i][j] = RawSet.rows[i][k]

\* A returned record set of two rows with the same content.
C3_Witness ==
    /\ Succeeded /\ Len(Result.rows) = 2 /\ Result.rows[1] = Result.rows[2]

\* C4 (as claimed): when a required upstream label is absent from the
\* source, the entry point returns None whatever else the source contains.
C4_MissingLabelFails ==
    (Called /\ \E l \in Required(last.v) : l \notin Range(FileCols)) => last.ret = None

\* The file reduced to its 'TEL' and 'APLCTN_DT' columns.
WithoutExtras(f) ==
    IF f.kind # "csv" THEN f
    ELSE LET t == TakeT(f, SelectSeq([j \in 1..Len(f.cols) |-> j],
                                     LAMBDA j : f.cols[j] \in {"TEL", "APLCTN_DT"}))
         IN  [kind |-> "csv", cols |-> t.cols, rows |-> t.rows]

\* C5: 'PD' and every other extra column are without influence on
\* load_bps_data: the outcome is that of loading the same file reduced to
\* its 'TEL' and 'APLCTN_DT' columns, and a well-formed file without 'PD'
\* loads successfully.
C5_PdWithoutInfluence ==
    (Called /\ last.v = "bps") =>
        LET alt == BpsLoader_load_bps_data(loaders["bps"],
                                           [p \in DOMAIN fs |-> WithoutExtras(fs[p])])
        IN  /\ (alt.ret = None) <=> (last.ret = None)
            /\ last.ret # None => alt.heap[alt.ret] = Result
            /\ ( /\ PathOf("bps") \in DOMAIN fs /\ TheFile.kind = "csv"
                 /\ {"TEL", "APLCTN_DT"} \subseteq Range(FileCols)
                 /\ "PD" \notin Range(FileCols)
                 /\ ~CoercionFails("bps") ) => last.ret # None

\* A successful BPS load of a file that carries a 'PD' column.
C5_Witness ==
    /\ Succeeded /\ last.v = "bps" /\ "PD" \in Range(FileCols)
    /\ Len(Result.rows) > 0

\* C6: a repeated call of an entry point yields the outcome of its first
\* call (equal data, or None both times), whatever calls came in between,
\* and every call whose path is configured enters the read step anew.
C6_Idempotent ==
    Called =>
        /\ first[last.v] = [called |-> TRUE, ok |-> last.ret # None,
                            data |-> IF last.ret # None THEN Result ELSE NoTable]
        /\ ~KeyLacking(last.v) => last.steps # <<>> /\ last.steps[1] = "read"

\* A repeated, successful call made after another variant was called too.
C6_Witness ==
    /\ Succeeded /\ last.again
    /\ \E w \in Variants \ {last.v} : first[w].called

\* The lines of each stage.
LoadingLines == {AlfaLoading, BpsLoading, InstallmentLoading, LizingLoading}

LoadedLines == {AlfaLoaded, DataLoaded}

CleaningLines == {AlfaCleaning, BpsCleaning, InstallmentCleaning, LizingCleaning}

CleanedLines == {AlfaCleaned, DataCleaned}

IsErrorLine(m) == Len(m) > 1 /\ SubSeq(m, 1, Len(m) - 1) \in {AlfaError, DataError}

\* C7: a call is a linear pipeline: read at most once, clean at most once
\* and only after a successful read, a result only when both succeeded, the
\* diagnostics in stage order, and an error line last on failure.
C7_LinearPipeline ==
    Called =>
        /\ last.steps \in {<<>>, <<"read">>, <<"read", "clean">>}
        /\ Len(last.out) \in {2, 4}
        /\ last.out[1] \in LoadingLines
        /\ Len(last.out) = 2 =>
              /\ IsErrorLine(last.out[2])
              /\ last.steps # <<"read", "clean">>
              /\ last.ret = None
        /\ Len(last.out) = 4 =>
              /\ last.out[2] \in LoadedLines
              /\ last.out[3] \in CleaningLines
              /\ last.steps = <<"read", "clean">>
              /\ \/ last.out[4] \in CleanedLines /\ last.ret # None
                 \/ IsErrorLine(last.out[4]) /\ last.ret = None
        /\ last.ret # None => ~InputFails(last.v)

\* A call that failed in its clean step, after a successful read.
C7_Witness ==
    /\ Called /\ Len(last.out) = 4 /\ IsErrorLine(last.out[4])
    /\ last.steps = <<"read", "clean">> /\ last.raw # None

\* C8 (as claimed): every diagnostic of a call tells its provider: the
\* error line bears the provider's name and no line names another provider.
C8_ProviderSpecificDiagnostics ==
    Called =>
        \A k \in 1..Len(last.out) :
            /\ Range(last.out[k]) \cap ProviderNames \subseteq {ProviderName(last.v)}
            /\ IsErrorLine(last.out[k]) => ProviderName(last.v) \in Range(last.out[k])

\* C9: load_bps_data returns a fresh object, neither the raw record set nor
\* the one _clean_data produced; whatever the caller does to it changes no
\* other record set, and the raw record set still has the columns it was
\* read with ('TEL', 'APLCTN_DT').
C9_DefensiveCopy ==
    (Succeeded /\ last.v = "bps") =>
        /\ last.ret \notin {last.raw, last.mid}
        /\ \A id \in DOMAIN heap \ {last.ret} : heap[id] = last.heap[id]
        /\ heap[last.raw].cols =
              SelectSeq(TheFile.cols, LAMBDA l : l \in {"TEL", "APLCTN_DT"})
        /\ heap[last.mid].cols = BpsSelected

\* A BPS result the caller has changed in place.
C9_Witness ==
    /\ Succeeded /\ last.v = "bps"
    /\ heap[last.ret] # last.heap[last.ret]

\* The returned rows are those of the p-th sheet.
RowsOfSheet(p) ==
    /\ Len(Result.rows) = Len(TheFile.sheets[p].rows)
    /\ \A i \in 1..Len(Result.rows) : \A j \in 1..Len(Result.rows[i]) :
          /\ Result.rows[i][j].s = p
          /\ Result.rows[i][j].r = TheFile.sheets[p].rows[i][1].r

ReadsWorkbook ==
    /\ Called /\ last.v \in {"alfa", "lizing"}
    /\ PathOf(last.v) \in DOMAIN fs /\ TheFile.kind = "xlsx"

\* C10 (as claimed): Alfa and Lizing read the first sheet of the workbook:
\* when it carries the required columns the call succeeds and returns its
\* rows, whatever the sheets are named.
C10_FirstSheetRead ==
    (ReadsWorkbook /\ Required(last.v) \subseteq Range(TheFile.sheets[1].cols))
        => Succeeded /\ RowsOfSheet(1)

\* C10 (amended): Alfa and Lizing read the sheet named "Sheet1": when the
\* workbook has one carrying the required columns the call succeeds and
\* returns that sheet's rows, wherever it stands among the sheets; a
\* workbook without a sheet of that name yields None.
C10_NamedSheetRead ==
    ReadsWorkbook =>
        /\ SheetsNamed("Sheet1") = {} => last.ret = None
        /\ \A p \in SheetsNamed("Sheet1") :
              Required(last.v) \subseteq Range(TheFile.sheets[p].cols)
              => Succeeded /\ RowsOfSheet(p)

\* A successful load from a workbook whose second sheet is "Sheet1".
C10_Witness ==
    /\ ReadsWorkbook /\ Succeeded /\ SheetsNamed("Sheet1") = {2}
    /\ Len(Result.rows) > 0

====
